---------------------------- MODULE Spec2Model ----------------------------
(***************************************************************************)
(* A model of gotinyraytracer (the full-featured variant, part_000):       *)
(* main's render loop, castRay's recursion as an explicit call stack,      *)
(* sceneIntersect, Sphere.RayIntersect, reflect, refract and the vector    *)
(* methods.                                                                *)
(*                                                                         *)
(* float64 values are modelled as decimal fixed-point numbers: the integer *)
(* a stands for a / Scale (four decimals).  Products and quotients are     *)
(* rounded toward zero to that grid.  Pointers to the heap objects the     *)
(* code shares (the spheres' Materials) are indices into mats.             *)
(*                                                                         *)
(* A local variable of the code that is read more than once is a parameter *)
(* of the operator that models the rest of the function, so that it is     *)
(* evaluated once: RayIntersect, for example, continues in RayD2, RayThc   *)
(* and RayT.                                                               *)
(***************************************************************************)
EXTENDS Integers, Sequences, FiniteSets

(***************************************************************************)
(* Fixed-point arithmetic standing for float64.                            *)
(***************************************************************************)
Scale == 10000

\* the decimal m / 1000 on the grid
Milli(m) == m * (Scale \div 1000)

\* the decimal t / 10 on the grid
Tenth(t) == t * (Scale \div 10)

Abs(a) == IF a < 0 THEN -a ELSE a

Sgn(a) == IF a < 0 THEN -1 ELSE 1

Max(a, b) == IF a > b THEN a ELSE b

Min(a, b) == IF a < b THEN a ELSE b

\* integer quotient rounded toward zero
TDiv(n, d) == Sgn(n) * Sgn(d) * (Abs(n) \div Abs(d))

\* a * b on the grid for a, b >= 0; the product is formed in parts so that
\* no intermediate value leaves the 32-bit range of TLC's integers
FMulAbs(a, b) ==
    (a \div Scale) * (b \div Scale) * Scale + (a \div Scale) * (b % Scale)
        + (a % Scale) * (b \div Scale) + (((a % Scale) * (b % Scale)) \div Scale)

\* a * b on the grid
FMul(a, b) == Sgn(a) * Sgn(b) * FMulAbs(Abs(a), Abs(b))

\* a / b on the grid for a >= 0, b > 0, by long division (four decimals)
FDivAbs(a, b) ==
    (a \div b) * Scale
        + (((a % b) * 10) \div b) * 1000
        + (((((a % b) * 10) % b) * 10) \div b) * 100
        + (((((((a % b) * 10) % b) * 10) % b) * 10) \div b) * 10
        + ((((((((a % b) * 10) % b) * 10) % b) * 10) % b) * 10) \div b

\* a / b on the grid
FDiv(a, b) == Sgn(a) * Sgn(b) * FDivAbs(Abs(a), Abs(b))

RECURSIVE SqrtSearch(_, _, _)
\* largest r in lo .. hi with r * r <= n
SqrtSearch(n, lo, hi) ==
    IF lo >= hi THEN lo
    ELSE IF ((lo + hi + 1) \div 2) * ((lo + hi + 1) \div 2) <= n
         THEN SqrtSearch(n, (lo + hi + 1) \div 2, hi)
         ELSE SqrtSearch(n, lo, ((lo + hi + 1) \div 2) - 1)

ISqrt(n) == SqrtSearch(n, 0, 46340)

\* math.Sqrt on the grid: sqrt(a / Scale) * Scale = sqrt(a * Scale); for a
\* large argument the radicand is scaled down first, which keeps the
\* relative precision of the result, as a float does
FSqrt(a) ==
    IF a <= 200000 THEN ISqrt(a * Scale)
    ELSE IF a <= 20000000 THEN 10 * ISqrt(a * 100)
    ELSE 100 * ISqrt(a)

\* h * h, times x when the exponent is odd
PowStep(h, x, odd) == IF odd THEN FMul(FMul(h, h), x) ELSE FMul(h, h)

RECURSIVE FPow(_, _)
\* math.Pow(x, e) for x >= 0 and a whole exponent e (math.Pow(x, 0) = 1)
FPow(x, e) ==
    IF e = 0 THEN Scale ELSE PowStep(FPow(x, e \div 2), x, e % 2 = 1)

(***************************************************************************)
(* vec3f and its methods.                                                  *)
(***************************************************************************)
Vec(x, y, z) == [X |-> x, Y |-> y, Z |-> z]

\* a *vec3f the code leaves nil; the code never reads through it
NilVec == [X |-> 0, Y |-> 0, Z |-> 0]

Multiply(v, rhs) == FMul(v.X, rhs.X) + FMul(v.Y, rhs.Y) + FMul(v.Z, rhs.Z)

MultiplyF(v, rhs) == Vec(FMul(v.X, rhs), FMul(v.Y, rhs), FMul(v.Z, rhs))

Add(v, rhs) == Vec(v.X + rhs.X, v.Y + rhs.Y, v.Z + rhs.Z)

Subtract(v, rhs) == Vec(v.X - rhs.X, v.Y - rhs.Y, v.Z - rhs.Z)

norm(v) == FSqrt(FMul(v.X, v.X) + FMul(v.Y, v.Y) + FMul(v.Z, v.Z))

\* v scaled by 1 / len: the reciprocal is not rounded to the grid on its
\* own, each component is divided by len
DivideF(v, len) == Vec(FDiv(v.X, len), FDiv(v.Y, len), FDiv(v.Z, len))

\* v.MultiplyF(1 / v.norm())
Normalize(v) == DivideF(v, norm(v))

\* i - n * 2 * (i . n), with dot the value of i.Multiply(n)
ReflectBy(i, n, dot) == Subtract(i, MultiplyF(MultiplyF(n, 2 * Scale), dot))

reflect(i, n) == ReflectBy(i, n, Multiply(i, n))

\* refract from the point where k is known
RefractK(i, n, eta, cosi, k) ==
    IF k < 0 THEN Vec(Scale, 0, 0)
    ELSE Add(MultiplyF(i, eta), MultiplyF(n, FMul(eta, cosi) - FSqrt(k)))

\* refract from the point where eta is known
RefractEta(i, n, eta, cosi) ==
    RefractK(i, n, eta, cosi, Scale - FMul(FMul(eta, eta), Scale - FMul(cosi, cosi)))

RECURSIVE refract(_, _, _, _)
\* refract from the point where cosi is known
RefractCos(i, n, refractiveIndex, etai, cosi) ==
    IF cosi < 0
    THEN refract(i, MultiplyF(n, -Scale), etai, refractiveIndex)
    ELSE RefractEta(i, n, FDiv(etai, refractiveIndex), cosi)

refract(i, n, refractiveIndex, etai) ==
    RefractCos(i, n, refractiveIndex, etai, Max(-Scale, Min(Scale, Multiply(i, n))))

(***************************************************************************)
(* Materials, spheres, lights.  A *Material is an index into the heap of   *)
(* shared Material objects (a sequence of Material values); the index 0    *)
(* stands for the object NewMaterial() allocated in the current            *)
(* sceneIntersect call, whose value travels with the call's result.        *)
(***************************************************************************)
Vec4(x, y, z, t) == [X |-> x, Y |-> y, Z |-> z, T |-> t]

Material(albedo, diffuse, specExp, refIdx) ==
    [Albedo |-> albedo, DiffuseColor |-> diffuse,
     SpecularExponent |-> specExp, RefractiveIndex |-> refIdx]

\* DiffuseColor is left nil and SpecularExponent 0 by the composite literal
NewMaterial == Material(Vec4(Scale, 0, 0, 0), NilVec, 0, Scale)

ivory ==
    Material(Vec4(Milli(600), Milli(300), Milli(100), 0),
             Vec(Milli(400), Milli(400), Milli(300)), 50, Scale)

glass ==
    Material(Vec4(0, Milli(500), Milli(100), Milli(800)),
             Vec(Milli(600), Milli(700), Milli(800)), 125, Milli(1500))

redRubber ==
    Material(Vec4(Milli(900), Milli(100), 0, 0),
             Vec(Milli(300), Milli(100), Milli(100)), 10, Scale)

mirror ==
    Material(Vec4(0, 10 * Scale, Milli(800), 0), Vec(Scale, Scale, Scale), 1425, Scale)

Sphere(center, radius, material) ==
    [Center |-> center, Radius |-> radius, Material |-> material]

Light(position, intensity) == [Position |-> position, Intensity |-> intensity]

\* math.MaxFloat64: larger than every distance of the model
MaxFloat64 == 2147483647

(***************************************************************************)
(* Sphere.RayIntersect.                                                    *)
(***************************************************************************)
NoIntersection == [intersect |-> FALSE, dist |-> 0]

\* lines 220-226, with t = tca - thc and t1 = tca + thc
RayT(t, t1) ==
    IF (IF t < 0 THEN t1 ELSE t) < 0 THEN NoIntersection
    ELSE [intersect |-> TRUE, dist |-> IF t < 0 THEN t1 ELSE t]

\* lines 218-219
RayThc(tca, thc) == RayT(tca - thc, tca + thc)

\* lines 214-217, with r2 = s.Radius * s.Radius
RayD2(r2, d2, tca) == IF d2 > r2 THEN NoIntersection ELSE RayThc(tca, FSqrt(r2 - d2))

\* line 213, with ll = l.Multiply(l)
RayTca(r2, ll, tca) == RayD2(r2, ll - FMul(tca, tca), tca)

\* lines 211-212
RayL(r2, l, dir) == RayTca(r2, Multiply(l, l), Multiply(l, dir))

RayIntersect(s, orig, dir) ==
    RayL(FMul(s.Radius, s.Radius), Subtract(s.Center, orig), dir)

(***************************************************************************)
(* sceneIntersect.                                                         *)
(***************************************************************************)
\* line 129: the condition under which the loop takes a sphere's hit
SphereCloser(intersect, dist, spheresDist) == intersect /\ dist < spheresDist

\* lines 130-133; acc holds the locals spheresDist, curMaterial, hit, n
SphereHit(sphere, dist, hit) ==
    [spheresDist |-> dist, curMaterial |-> sphere.Material, hit |-> hit,
     n |-> Normalize(Subtract(hit, sphere.Center))]

\* lines 128-134: the loop's body for one sphere, r its RayIntersect
SphereBody(orig, dir, sphere, r, acc) ==
    IF SphereCloser(r.intersect, r.dist, acc.spheresDist)
    THEN SphereHit(sphere, r.dist, Add(orig, MultiplyF(dir, r.dist)))
    ELSE acc

RECURSIVE SphereLoop(_, _, _, _, _)
\* lines 127-135: the loop over the spheres from the k-th on
SphereLoop(orig, dir, spheres, k, acc) ==
    IF k > Len(spheres) THEN acc
    ELSE SphereLoop(orig, dir, spheres, k + 1,
                    SphereBody(orig, dir, spheres[k],
                               RayIntersect(spheres[k], orig, dir), acc))

\* a conversion that rounds toward minus infinity, which int(x) is not
FloorOf(x) == x \div Scale

\* int(x) of a float64: the fraction is discarded (rounding toward zero)
IntOf(x) == TDiv(x, Scale)

\* the parity test with hit.X halved as hit.Z is, which line 144 is not
CheckerOddHalfX(hit) ==
    ((IntOf(FMul(Milli(500), hit.X) + 1000 * Scale) + IntOf(FMul(Milli(500), hit.Z))) % 2) # 0

\* line 144: (int(0.5+hit.X+1000) + int(0.5*hit.Z)) & 1 != 0
CheckerOdd(hit) ==
    ((IntOf(Milli(500) + hit.X + 1000 * Scale) + IntOf(FMul(Milli(500), hit.Z))) % 2) # 0

White == Vec(Scale, Scale, Scale)

Orange == Vec(Scale, Milli(700), Milli(300))

\* lines 144-149: the DiffuseColor the checkerboard branch stores
CheckerColor(hit) == MultiplyF(IF CheckerOdd(hit) THEN White ELSE Orange, Milli(300))

\* an acceptance that takes the hits with x at -10 and 10 too, which
\* line 140 does not
PlaneAcceptsClosedX(d, pt, spheresDist) ==
    /\ d > 0
    /\ Abs(pt.X) <= 10 * Scale
    /\ pt.Z < -10 * Scale
    /\ pt.Z > -30 * Scale
    /\ d < spheresDist

\* line 140: the condition under which the checkerboard takes the hit
PlaneAccepts(d, pt, spheresDist) ==
    /\ d > 0
    /\ Abs(pt.X) < 10 * Scale
    /\ pt.Z < -10 * Scale
    /\ pt.Z > -30 * Scale
    /\ d < spheresDist

\* line 137: the plane is looked at
PlaneConsidered(dir) == Abs(dir.Y) > Milli(1)

MaxDist == 1000 * Scale

\* lines 141-152 when the checkerboard takes the hit: DiffuseColor is
\* written through curMaterial, the call's own object or a sphere's Material
PlaneResult(heap, acc, d, pt, color) ==
    [intersect |-> Min(acc.spheresDist, d) < MaxDist,
     hit |-> pt, n |-> Vec(0, Scale, 0), mat |-> acc.curMaterial,
     fresh |-> IF acc.curMaterial = 0
               THEN [NewMaterial EXCEPT !.DiffuseColor = color]
               ELSE NewMaterial,
     heap |-> IF acc.curMaterial = 0 THEN heap
              ELSE [heap EXCEPT ![acc.curMaterial].DiffuseColor = color],
     plane |-> TRUE, spheresDist |-> acc.spheresDist, checkboardDist |-> d]

\* line 152 when the checkerboard does not take the hit
SphereResult(heap, acc) ==
    [intersect |-> Min(acc.spheresDist, MaxFloat64) < MaxDist,
     hit |-> acc.hit, n |-> acc.n, mat |-> acc.curMaterial,
     fresh |-> NewMaterial, heap |-> heap,
     plane |-> FALSE, spheresDist |-> acc.spheresDist,
     checkboardDist |-> MaxFloat64]

\* lines 140-151, with pt = orig + dir * d
PlanePt(heap, acc, d, pt) ==
    IF PlaneAccepts(d, pt, acc.spheresDist)
    THEN PlaneResult(heap, acc, d, pt, CheckerColor(pt))
    ELSE SphereResult(heap, acc)

\* line 139
PlaneD(orig, dir, heap, acc, d) == PlanePt(heap, acc, d, Add(orig, MultiplyF(dir, d)))

\* lines 136-152, acc the locals after the loop over the spheres
PlaneTest(orig, dir, heap, acc) ==
    IF PlaneConsidered(dir)
    THEN PlaneD(orig, dir, heap, acc, FDiv(-(orig.Y + 4 * Scale), dir.Y))
    ELSE SphereResult(heap, acc)

\* sceneIntersect(orig, dir, spheres) on the heap heap.  The result holds
\* the four returned values (intersect, hit, n, and the *Material as mat,
\* with fresh the value of the call's own NewMaterial() object), the heap
\* after the call, and the locals spheresDist and checkboardDist; plane
\* tells whether the checkerboard took the hit.
sceneIntersect(orig, dir, spheres, heap) ==
    PlaneTest(orig, dir, heap,
              SphereLoop(orig, dir, spheres, 1,
                         [spheresDist |-> MaxFloat64, curMaterial |-> 0,
                          hit |-> NilVec, n |-> NilVec]))

\* the Material value a *Material returned by sceneIntersect points to
Deref(mat, fresh, heap) == IF mat = 0 THEN fresh ELSE heap[mat]

(***************************************************************************)
(* Scenes.  RefScene is the scene main builds (lines 87-97).  SunkScene    *)
(* is a second scene for the same functions, in which a sphere reaches     *)
(* below the checkerboard and two spheres share one Material.  Coordinates *)
(* are given in tenths.                                                    *)
(***************************************************************************)
Pt(x, y, z) == Vec(Tenth(x), Tenth(y), Tenth(z))

RefScene ==
    [mats    |-> << ivory, glass, redRubber, mirror >>,
     spheres |-> << Sphere(Pt(-30, 0, -160), Tenth(20), 1),
                    Sphere(Pt(-10, -15, -120), Tenth(20), 2),
                    Sphere(Pt(15, -5, -180), Tenth(30), 3),
                    Sphere(Pt(70, 50, -180), Tenth(40), 4) >>,
     lights  |-> << Light(Pt(-200, 200, 200), Tenth(15)),
                    Light(Pt(300, 500, -250), Tenth(18)),
                    Light(Pt(300, 200, 300), Tenth(17)) >>]

SunkScene ==
    [mats    |-> << ivory, redRubber >>,
     spheres |-> << Sphere(Pt(-27, -27, -100), Tenth(10), 2),
                    Sphere(Pt(49, -50, -180), Tenth(25), 2),
                    Sphere(Pt(0, 30, -140), Tenth(15), 1) >>,
     lights  |-> << Light(Pt(-200, 200, 200), Tenth(15)),
                    Light(Pt(0, 100, -140), Tenth(10)) >>]

Scenes == << RefScene, SunkScene >>

(***************************************************************************)
(* The image and the camera of main.                                       *)
(***************************************************************************)
totalWidth == 2

totalHeight == 2

\* math.Tan(fov / 2.0) for fov = 1.0
TanHalfFov == 5463

Pixels == (0 .. totalWidth - 1) \X (0 .. totalHeight - 1)

\* line 104
PixelY(pj) ==
    -FMul(FDiv(2 * (pj * Scale + Milli(500)), totalHeight * Scale) - Scale, TanHalfFov)

\* line 106
PixelX(pi) ==
    FDiv(FMul(FMul(FDiv(2 * (pi * Scale + Milli(500)), totalWidth * Scale) - Scale,
                   TanHalfFov),
              totalWidth * Scale),
         totalHeight * Scale)

\* line 107: the direction main casts through pixel (pi, pj)
PixelDir(pi, pj) == Normalize(Vec(PixelX(pi), PixelY(pj), -Scale))

\* a quantization to the nearest integer, which lines 110-112 are not
QuantizeRounded(c) == IntOf(FMul(Min(Max(0, c), Scale), 255 * Scale) + Milli(500))

\* uint8(math.Min(math.Max(0, c), 1) * 255)
Quantize(c) == IntOf(FMul(Min(Max(0, c), Scale), 255 * Scale))

\* an inner loop that stops one column early, which line 105 does not
InRowShort(pi) == pi < totalWidth - 1

\* the loop conditions of main
InRow(pi) == pi < totalWidth

InImage(pj) == pj < totalHeight

\* line 158
Background ==
    Vec(FDiv(55 * Scale, 255 * Scale), FDiv(176 * Scale, 255 * Scale),
        FDiv(202 * Scale, 255 * Scale))

(***************************************************************************)
(* State.                                                                  *)
(*   spheres, lights  the scene (never assigned after Init)                *)
(*   mats             the heap of the Materials the spheres point to       *)
(*   stack            the castRay calls in progress, innermost last        *)
(*   ret              what the last castRay call to return returned        *)
(*   shade            what the last iteration of castRay's light loop did  *)
(*   pc, i, j, colorVec, img   main: position, loop indices, the pixel's   *)
(*                    colour, the image with the number of Set calls       *)
(*   log              the top-level castRay calls completed by a caller    *)
(*                    other than main, with their results                  *)
(*   probe, prev      the last two direct sceneIntersect calls             *)
(*   quant            the last channel quantized on its own                *)
(***************************************************************************)
VARIABLES spheres, lights, mats, stack, ret, shade, pc, i, j, colorVec, img,
          log, probe, prev, quant

vars == << spheres, lights, mats, stack, ret, shade, pc, i, j, colorVec, img,
           log, probe, prev, quant >>

sceneVars == << spheres, lights >>

mainVars == << i, j, img >>

probeVars == << probe, prev, quant >>

\* a castRay call: its parameters, its position, its locals, and two
\* counters of what it has done so far (sceneIntersect calls, castRay calls)
Frame(orig, dir, depth) ==
    [orig |-> orig, dir |-> dir, depth |-> depth, pc |-> "intersect",
     intersect |-> FALSE, point |-> NilVec, n |-> NilVec,
     mat |-> 0, fresh |-> NewMaterial,
     reflectColor |-> NilVec, refractColor |-> NilVec,
     light |-> 1, lightDir |-> NilVec, lightDistance |-> 0,
     shadowOrig |-> NilVec, shadowIntersect |-> FALSE, shadowPoint |-> NilVec,
     diffuse |-> 0, specular |-> 0,
     isects |-> 0, recursions |-> 0]

NoRet == [depth |-> -1, color |-> NilVec, orig |-> NilVec, dir |-> NilVec,
          intersect |-> FALSE, isects |-> 0, recursions |-> 0]

NoShade == [depth |-> -1]

NoProbe == [called |-> FALSE]

NoQuant == [called |-> FALSE, c |-> 0, q |-> 0]

InitCommon ==
    /\ \E sc \in 1 .. Len(Scenes) :
          /\ spheres = Scenes[sc].spheres
          /\ lights = Scenes[sc].lights
          /\ mats = Scenes[sc].mats
    /\ stack = << >>
    /\ ret = NoRet
    /\ shade = NoShade
    /\ i = 0
    /\ j = 0
    /\ colorVec = NilVec
    /\ img = [px \in Pixels |-> [writes |-> 0, R |-> 0, G |-> 0, B |-> 0]]
    /\ log = << >>
    /\ probe = NoProbe
    /\ prev = NoProbe

\* main, before its loops
Init == InitCommon /\ quant = NoQuant /\ pc = "loop"

Top == stack[Len(stack)]

SetTop(f) == [stack EXCEPT ![Len(stack)] = f]

(***************************************************************************)
(* castRay.                                                                *)
(***************************************************************************)
\* line 156, with r what sceneIntersect returns
AssignIntersect(r) ==
    /\ mats' = r.heap
    /\ stack' = SetTop([Top EXCEPT !.intersect = r.intersect, !.point = r.hit,
                                   !.n = r.n, !.mat = r.mat, !.fresh = r.fresh,
                                   !.isects = @ + 1, !.pc = "guard"])

\* line 156: the call of sceneIntersect
Intersect ==
    /\ stack # << >>
    /\ Top.pc = "intersect"
    /\ AssignIntersect(sceneIntersect(Top.orig, Top.dir, spheres, mats))
    /\ UNCHANGED << sceneVars, mainVars, probeVars, ret, shade, pc, colorVec, log >>

\* a guard that lets a call of depth 5 go on, which line 157 does not
TerminalDeeper(depth, intersect) == depth > 5 \/ ~intersect

\* line 157: depth > 4 || !intersect
Terminal(depth, intersect) == depth > 4 \/ ~intersect

\* the caller takes the value color of the call it waits for
Resume(caller, color) ==
    IF caller.pc = "reflectWait"
    THEN [caller EXCEPT !.reflectColor = color, !.pc = "refract"]
    ELSE [caller EXCEPT !.refractColor = color, !.pc = "lights"]

\* the return of the innermost call with the value color: to the caller's
\* reflectColor or refractColor, to main's colorVec, or to the log of a
\* caller other than main
ReturnValue(color) ==
    /\ ret' = [depth |-> Top.depth, color |-> color, orig |-> Top.orig,
               dir |-> Top.dir, intersect |-> Top.intersect,
               isects |-> Top.isects, recursions |-> Top.recursions]
    /\ IF Len(stack) > 1
       THEN /\ stack' = [SubSeq(stack, 1, Len(stack) - 1) EXCEPT
                            ![Len(stack) - 1] = Resume(stack[Len(stack) - 1], color)]
            /\ UNCHANGED << pc, colorVec, log >>
       ELSE /\ stack' = << >>
            /\ IF pc = "cast"
               THEN /\ pc' = "write"
                    /\ colorVec' = color
                    /\ UNCHANGED log
               ELSE /\ pc' = "idle"
                    /\ log' = Append(log, [orig |-> Top.orig, dir |-> Top.dir,
                                           color |-> color])
                    /\ UNCHANGED colorVec

\* lines 157-159: the terminal case
ReturnBackground ==
    /\ stack # << >>
    /\ Top.pc = "guard"
    /\ Terminal(Top.depth, Top.intersect)
    /\ ReturnValue(Background)
    /\ UNCHANGED << sceneVars, mainVars, probeVars, mats, shade >>

\* lines 162-167, 172-176, 185-190: the origin of a secondary ray, the hit
\* point moved by 1e-3 along the normal to the side the ray leaves to
Offset(point, n, dir) ==
    IF Multiply(dir, n) < 0 THEN Subtract(point, MultiplyF(n, Milli(1)))
    ELSE Add(point, MultiplyF(n, Milli(1)))

\* lines 168, 177: the recursive call for the direction dir
Recurse(wait, dir) ==
    stack' = Append(SetTop([Top EXCEPT !.pc = wait, !.recursions = @ + 1]),
                    Frame(Offset(Top.point, Top.n, dir), dir, Top.depth + 1))

\* lines 161-168: the reflected ray
CallReflect ==
    /\ stack # << >>
    /\ Top.pc = "guard"
    /\ ~Terminal(Top.depth, Top.intersect)
    /\ Recurse("reflectWait", Normalize(reflect(Top.dir, Top.n)))
    /\ UNCHANGED << sceneVars, mainVars, probeVars, mats, ret, shade, pc,
                    colorVec, log >>

\* lines 170-177: the refracted ray
CallRefract ==
    /\ stack # << >>
    /\ Top.pc = "refract"
    /\ Recurse("refractWait",
               Normalize(refract(Top.dir, Top.n,
                                 Deref(Top.mat, Top.fresh, mats).RefractiveIndex,
                                 Scale)))
    /\ UNCHANGED << sceneVars, mainVars, probeVars, mats, ret, shade, pc,
                    colorVec, log >>

\* lines 185-190, with lightDir and lightDistance computed
AssignLight(lightDir, lightDistance) ==
    stack' = SetTop([Top EXCEPT !.lightDir = lightDir,
                                !.lightDistance = lightDistance,
                                !.shadowOrig = Offset(Top.point, Top.n, lightDir),
                                !.pc = "shadow"])

\* lines 182-190: the direction and the distance of the next light, and
\* the origin of its shadow ray
LightRay ==
    /\ stack # << >>
    /\ Top.pc = "lights"
    /\ Top.light <= Len(lights)
    /\ AssignLight(Normalize(Subtract(lights[Top.light].Position, Top.point)),
                   norm(Subtract(lights[Top.light].Position, Top.point)))
    /\ UNCHANGED << sceneVars, mainVars, probeVars, mats, ret, shade, pc,
                    colorVec, log >>

\* line 191, with sh what sceneIntersect returns
AssignShadow(sh) ==
    /\ mats' = sh.heap
    /\ stack' = SetTop([Top EXCEPT !.shadowIntersect = sh.intersect,
                                   !.shadowPoint = sh.hit,
                                   !.isects = @ + 1, !.pc = "shade"])

\* line 191: the shadow ray
ShadowRay ==
    /\ stack # << >>
    /\ Top.pc = "shadow"
    /\ AssignShadow(sceneIntersect(Top.shadowOrig, Top.lightDir, spheres, mats))
    /\ UNCHANGED << sceneVars, mainVars, probeVars, ret, shade, pc, colorVec, log >>

\* a shadow test that hides no light, which line 192 is not
NeverOccluded(shadowIntersect, shadowPoint, shadowOrig, lightDistance) == FALSE

\* line 192: the light is hidden from the point
Occluded(shadowIntersect, shadowPoint, shadowOrig, lightDistance) ==
    shadowIntersect /\ norm(Subtract(shadowPoint, shadowOrig)) < lightDistance

\* line 196: what an unhidden light adds to diffuseLightIntensity
DiffuseTerm(light, lightDir, n) == FMul(light.Intensity, Max(0, Multiply(lightDir, n)))

\* line 197: what an unhidden light adds to specularLightIntensity
SpecularTerm(light, lightDir, n, dir, specularExponent) ==
    FMul(FPow(Max(0, Multiply(MultiplyF(reflect(MultiplyF(lightDir, -Scale), n), -Scale),
                              dir)),
              specularExponent),
         light.Intensity)

\* the end of an iteration of the loop over the lights, in which dd and ds
\* were added to the two intensities
EndLight(dd, ds) ==
    /\ stack' = SetTop([Top EXCEPT !.diffuse = @ + dd, !.specular = @ + ds,
                                   !.light = @ + 1, !.pc = "lights"])
    /\ shade' = [depth |-> Top.depth, light |-> Top.light, n |-> Top.n,
                 dir |-> Top.dir, lightDir |-> Top.lightDir,
                 lightDistance |-> Top.lightDistance,
                 shadowOrig |-> Top.shadowOrig,
                 shadowIntersect |-> Top.shadowIntersect,
                 shadowPoint |-> Top.shadowPoint,
                 specularExponent |->
                     Deref(Top.mat, Top.fresh, mats).SpecularExponent,
                 diffuseBefore |-> Top.diffuse, specularBefore |-> Top.specular,
                 diffuseAfter |-> Top.diffuse + dd,
                 specularAfter |-> Top.specular + ds]

\* lines 192-194: the light is hidden, continue
SkipLight ==
    /\ stack # << >>
    /\ Top.pc = "shade"
    /\ Occluded(Top.shadowIntersect, Top.shadowPoint, Top.shadowOrig,
                Top.lightDistance)
    /\ EndLight(0, 0)
    /\ UNCHANGED << sceneVars, mainVars, probeVars, mats, ret, pc, colorVec, log >>

\* lines 196-197: the light is added to the two intensities
AddLight ==
    /\ stack # << >>
    /\ Top.pc = "shade"
    /\ ~Occluded(Top.shadowIntersect, Top.shadowPoint, Top.shadowOrig,
                 Top.lightDistance)
    /\ EndLight(DiffuseTerm(lights[Top.light], Top.lightDir, Top.n),
                SpecularTerm(lights[Top.light], Top.lightDir, Top.n, Top.dir,
                             Deref(Top.mat, Top.fresh, mats).SpecularExponent))
    /\ UNCHANGED << sceneVars, mainVars, probeVars, mats, ret, pc, colorVec, log >>

\* lines 200-204: the colour of a hit on the material m
Composite(m, diffuse, specular, reflectColor, refractColor) ==
    Add(Add(Add(MultiplyF(MultiplyF(m.DiffuseColor, diffuse), m.Albedo.X),
                MultiplyF(MultiplyF(Vec(Scale, Scale, Scale), specular), m.Albedo.Y)),
            MultiplyF(reflectColor, m.Albedo.Z)),
        MultiplyF(refractColor, m.Albedo.T))

\* lines 200-204: the return after the loop over the lights
ReturnColor ==
    /\ stack # << >>
    /\ Top.pc = "lights"
    /\ Top.light > Len(lights)
    /\ ReturnValue(Composite(Deref(Top.mat, Top.fresh, mats), Top.diffuse,
                             Top.specular, Top.reflectColor, Top.refractColor))
    /\ UNCHANGED << sceneVars, mainVars, probeVars, mats, shade >>

CastRayStep ==
    \/ Intersect
    \/ ReturnBackground
    \/ CallReflect
    \/ CallRefract
    \/ LightRay
    \/ ShadowRay
    \/ SkipLight
    \/ AddLight
    \/ ReturnColor

(***************************************************************************)
(* main.                                                                   *)
(***************************************************************************)
\* lines 103-108: the next pixel's ray
StartPixel ==
    /\ pc = "loop"
    /\ InImage(j)
    /\ InRow(i)
    /\ stack' = << Frame(Vec(0, 0, 0), PixelDir(i, j), 0) >>
    /\ pc' = "cast"
    /\ UNCHANGED << sceneVars, mainVars, probeVars, mats, ret, shade, colorVec, log >>

\* lines 109-115: the pixel is quantized and set; Set ignores a point
\* outside the image's rectangle
WritePixel ==
    /\ pc = "write"
    /\ img' = IF << i, j >> \in Pixels
              THEN [img EXCEPT ![<< i, j >>] =
                       [writes |-> @.writes + 1, R |-> Quantize(colorVec.X),
                        G |-> Quantize(colorVec.Y), B |-> Quantize(colorVec.Z)]]
              ELSE img
    /\ i' = i + 1
    /\ pc' = "loop"
    /\ UNCHANGED << sceneVars, probeVars, mats, stack, ret, shade, j, colorVec, log >>

\* the inner loop ends: the next row
NextRow ==
    /\ pc = "loop"
    /\ InImage(j)
    /\ ~InRow(i)
    /\ j' = j + 1
    /\ i' = 0
    /\ UNCHANGED << sceneVars, probeVars, mats, stack, ret, shade, pc, colorVec,
                    img, log >>

\* line 119: the outer loop ends and the image is handed to mustWriteToDisk
WriteToDisk ==
    /\ pc = "loop"
    /\ ~InImage(j)
    /\ pc' = "done"
    /\ UNCHANGED << sceneVars, mainVars, probeVars, mats, stack, ret, shade,
                    colorVec, log >>

Next == StartPixel \/ CastRayStep \/ WritePixel \/ NextRow \/ WriteToDisk

Spec == Init /\ [][Next]_vars

(***************************************************************************)
(* sceneIntersect called on its own, for rays that go straight down from   *)
(* the points (x, 0, z) of a grid over the checkerboard: x in halves from  *)
(* 0 to ProbeX, z in units from -18 to -18 + ProbeZ.  Such a ray meets the *)
(* plane y = -4 at the distance 4 exactly, in the point (x, -4, z).        *)
(***************************************************************************)
ProbeX == 3

ProbeZ == 1

ProbeOrigins ==
    { Vec(kx * Milli(500), 0, (kz - 18) * Scale) : kx \in 0 .. 2 * ProbeX, kz \in 0 .. ProbeZ }

Down == Vec(0, -Scale, 0)

\* what a caller of sceneIntersect(orig, dir, spheres) sees when it returns
\* r: the returned values, material being the Material the returned pointer
\* points to at that moment
ProbeRecord(orig, dir, r) ==
    [called |-> TRUE, orig |-> orig, dir |-> dir, intersect |-> r.intersect,
     hit |-> r.hit, n |-> r.n, mat |-> r.mat,
     material |-> Deref(r.mat, r.fresh, r.heap),
     plane |-> r.plane, spheresDist |-> r.spheresDist,
     checkboardDist |-> r.checkboardDist]

AssignProbe(orig, dir, r) ==
    /\ mats' = r.heap
    /\ probe' = ProbeRecord(orig, dir, r)
    /\ prev' = probe

\* a call of sceneIntersect for a ray of the grid
ProbeIntersect ==
    /\ pc = "probe"
    /\ \E orig \in ProbeOrigins :
          AssignProbe(orig, Down, sceneIntersect(orig, Down, spheres, mats))
    /\ UNCHANGED << sceneVars, mainVars, stack, ret, shade, pc, colorVec, log, quant >>

InitProbe == InitCommon /\ quant = NoQuant /\ pc = "probe"

NextProbe == ProbeIntersect

SpecProbe == InitProbe /\ [][NextProbe]_vars

(***************************************************************************)
(* The quantization of lines 110-112 applied to one channel on its own,    *)
(* for the channel values k / 1000 from -MaxOver / 1000 to                 *)
(* 1 + MaxOver / 1000.  Their products with 255 are exact.                 *)
(***************************************************************************)
MaxOver == 5

Channels == { Milli(k) : k \in -MaxOver .. 1000 + MaxOver }

\* lines 110-112 for the channel value quant.c
QuantizeChannel ==
    /\ pc = "quantize"
    /\ ~quant.called
    /\ quant' = [quant EXCEPT !.called = TRUE, !.q = Quantize(quant.c)]
    /\ UNCHANGED << sceneVars, mainVars, mats, stack, ret, shade, pc, colorVec,
                    log, probe, prev >>

\* the channel value is any of Channels
InitQuantize ==
    /\ InitCommon
    /\ \E c \in Channels : quant = [called |-> FALSE, c |-> c, q |-> 0]
    /\ pc = "quantize"

NextQuantize == QuantizeChannel

SpecQuantize == InitQuantize /\ [][NextQuantize]_vars

(***************************************************************************)
(* castRay called at depth 0 by a caller that renders the pixels in any    *)
(* order, a pixel possibly more than once, MaxCasts times in all; the      *)
(* calls and their results are kept in log.                                *)
(***************************************************************************)
MaxCasts == 3

CastPixel ==
    /\ pc = "idle"
    /\ Len(log) < MaxCasts
    /\ \E px \in Pixels :
          stack' = << Frame(Vec(0, 0, 0), PixelDir(px[1], px[2]), 0) >>
    /\ pc' = "casting"
    /\ UNCHANGED << sceneVars, mainVars, probeVars, mats, ret, shade, colorVec, log >>

InitCast == InitCommon /\ quant = NoQuant /\ pc = "idle"

NextCast == CastPixel \/ CastRayStep

SpecCast == InitCast /\ [][NextCast]_vars

(***************************************************************************)
(* sceneIntersect called once, for a ray at the edges of what it accepts:  *)
(* rays straight down from (x, 0, z) with x around -10 and 10 and z around *)
(* -30 and -10 in halves (EdgeSteps of them on either side), rays that     *)
(* start on or point away from the plane, rays with |dir.Y| at 1e-3, and,  *)
(* over the scene without spheres, rays that meet the plane at a distance  *)
(* around 1000.  TieScene has two spheres at one place.                    *)
(***************************************************************************)
EdgeSteps == 1

TieScene ==
    [mats    |-> << ivory, redRubber >>,
     spheres |-> << Sphere(Pt(0, 0, -200), Tenth(20), 1),
                    Sphere(Pt(0, 0, -200), Tenth(20), 2) >>,
     lights  |-> << Light(Pt(-200, 200, 200), Tenth(15)) >>]

EmptyScene == [mats |-> << >>, spheres |-> << >>, lights |-> << >>]

EdgeScenes == << RefScene, SunkScene, TieScene, EmptyScene >>

EdgeOffsets == { k * Milli(500) : k \in -EdgeSteps .. EdgeSteps }

EdgeXs == { e + o : e \in { -10 * Scale, 10 * Scale }, o \in EdgeOffsets } \cup { 0 }

EdgeZs == { e + o : e \in { -30 * Scale, -10 * Scale }, o \in EdgeOffsets }
              \cup { -20 * Scale }

Ray(orig, dir) == [orig |-> orig, dir |-> dir]

GridRays == { Ray(Vec(x, 0, z), Down) : x \in EdgeXs, z \in EdgeZs }

SpecialRays ==
    { Ray(Pt(0, 0, -200), Vec(0, Scale, 0)),
      Ray(Pt(0, -40, -200), Down),
      Ray(Pt(0, 0, 0), Vec(0, 0, -Scale)),
      Ray(Vec(0, -Milli(3990), -5 * Scale), Vec(0, -Milli(1), -Scale)),
      Ray(Vec(0, -Milli(3990), -5 * Scale), Vec(0, -Milli(1) - 1, -Scale)),
      Ray(Pt(25, 0, -180), Down) }

\* origins 1000 above the plane, give or take; the squares of such
\* distances to a sphere would leave the range of the numbers
FarRays == { Ray(Vec(0, 996 * Scale + o, -20 * Scale), Down) : o \in EdgeOffsets }

EdgeRays ==
    GridRays \cup SpecialRays \cup (IF spheres = << >> THEN FarRays ELSE { })

\* one call of sceneIntersect for a ray of EdgeRays
ProbeEdge ==
    /\ pc = "edge"
    /\ \E ray \in EdgeRays :
          AssignProbe(ray.orig, ray.dir,
                      sceneIntersect(ray.orig, ray.dir, spheres, mats))
    /\ pc' = "edged"
    /\ UNCHANGED << sceneVars, mainVars, stack, ret, shade, colorVec, log, quant >>

InitEdge ==
    /\ \E sc \in 1 .. Len(EdgeScenes) :
          /\ spheres = EdgeScenes[sc].spheres
          /\ lights = EdgeScenes[sc].lights
          /\ mats = EdgeScenes[sc].mats
    /\ stack = << >>
    /\ ret = NoRet
    /\ shade = NoShade
    /\ i = 0
    /\ j = 0
    /\ colorVec = NilVec
    /\ img = [px \in Pixels |-> [writes |-> 0, R |-> 0, G |-> 0, B |-> 0]]
    /\ log = << >>
    /\ probe = NoProbe
    /\ prev = NoProbe
    /\ quant = NoQuant
    /\ pc = "edge"

NextEdge == ProbeEdge

SpecEdge == InitEdge /\ [][NextEdge]_vars

(***************************************************************************)
(* Properties.                                                             *)
(***************************************************************************)

\* C1: every Material a sphere points to keeps, through all sceneIntersect
\* and castRay calls, the value it had when the scene was constructed.
\* The rendering of SunkScene violates it: the checkerboard branch writes
\* DiffuseColor through the pointer taken from a sphere.
C1_MaterialsUnchanged ==
    \E sc \in 1 .. Len(Scenes) :
        spheres = Scenes[sc].spheres /\ mats = Scenes[sc].mats

\* C2: when sceneIntersect reports a hit and the checkerboard took it, the
\* returned material has Albedo (1, 0, 0, 0), SpecularExponent 0 and
\* RefractiveIndex 1.  A ray of SunkScene that meets a sphere behind the
\* plane violates it: the Material returned is the sphere's.
C2_PlaneMaterialDefault ==
    (probe.called /\ probe.intersect /\ probe.plane)
        => /\ probe.material.Albedo = Vec4(Scale, 0, 0, 0)
           /\ probe.material.SpecularExponent = 0
           /\ probe.material.RefractiveIndex = Scale

C3_Background == Vec((55 * Scale) \div 255, (176 * Scale) \div 255, (202 * Scale) \div 255)

C3_DepthBound ==
    /\ \A k \in 1 .. Len(stack) :
          /\ stack[k].depth = k - 1
          /\ stack[k].depth <= 5
          /\ stack[k].depth = 5 => stack[k].recursions = 0
          /\ stack[k].recursions <= 2
    /\ ret.depth = 5 => (ret.color = C3_Background /\ ret.recursions = 0)
    /\ (ret.depth \in 0 .. 4 /\ ret.intersect) => ret.recursions = 2

RECURSIVE C3_Work(_)
\* a bound on the steps of a castRay call of depth d: for a call of
\* depth 5 the intersection and the return; for another call these two,
\* the two recursive calls and what they do, and three steps for each light
C3_Work(d) ==
    IF d >= 5 THEN 2 ELSE 4 + 3 * Len(lights) + 2 * C3_Work(d + 1)

\* a bound on the steps the call f has left, those of the call it waits
\* for not counted
C3_Left(f) ==
    CASE f.pc = "intersect" -> C3_Work(f.depth)
      [] f.pc = "guard" -> C3_Work(f.depth) - 1
      [] f.pc = "reflectWait" -> C3_Work(f.depth) - 2 - C3_Work(f.depth + 1)
      [] f.pc = "refract" -> C3_Work(f.depth) - 2 - C3_Work(f.depth + 1)
      [] f.pc = "refractWait" -> 1 + 3 * Len(lights)
      [] f.pc = "lights" -> 1 + 3 * (Len(lights) + 1 - f.light)
      [] f.pc = "shadow" -> 3 * (Len(lights) + 1 - f.light)
      [] f.pc = "shade" -> 3 * (Len(lights) + 1 - f.light) - 1

RECURSIVE C3_RankFrom(_)
C3_RankFrom(k) ==
    IF k > Len(stack) THEN 0 ELSE C3_Left(stack[k]) + C3_RankFrom(k + 1)

\* a bound on the steps left until the call main made returns
C3_Rank == C3_RankFrom(1)

\* every step of castRay takes at least one from the bound
C3_Decreases == stack # << >> => (C3_Rank' < C3_Rank /\ C3_Rank' >= 0)

\* the innermost call is at a position from which it takes a step
C3_Runs ==
    stack # << >>
        => Top.pc \in { "intersect", "guard", "refract", "lights", "shadow", "shade" }

\* C3: a castRay call of depth 5 returns the background colour and makes
\* no recursive call; no call has a depth above 5; a call made by a call
\* of depth d has depth d + 1; a call of depth 0..4 that hits a surface
\* has made two recursive calls when it returns; and a call of depth 0
\* returns: while it runs the innermost call can take a step, and every
\* step lowers a bound on the steps left.
C3_Terminates == [] (C3_DepthBound /\ C3_Runs) /\ [][C3_Decreases]_vars

\* a call of depth 5 that hit a surface has returned
C3_Witness == ret.depth = 5 /\ ret.intersect /\ ret.color = C3_Background

\* C4: a castRay call of depth 5 has not called sceneIntersect when it
\* returns.  Every call of depth 5 violates it: line 156 calls
\* sceneIntersect before line 157 looks at depth.
C4_NoIntersectionAtDepth5 == ret.depth = 5 => ret.isects = 0

\* the squared distance of a sphere's centre from the line of a ray is
\* below the squared radius by a margin; l is the centre seen from the
\* ray's origin, tca the component of l along the ray
C5_Crosses(s, l, tca) ==
    Multiply(l, l) - FMul(tca, tca) < FMul(s.Radius, s.Radius) - Milli(10)

\* the sphere s lies strictly between the origin of the last shadow ray
\* and the light: the ray crosses it, and it is wholly past the origin and
\* wholly before the light
C5_Between(s, l, tca) ==
    /\ tca > s.Radius
    /\ tca + s.Radius < shade.lightDistance
    /\ C5_Crosses(s, l, tca)

C5_SomeSphereBetween ==
    \E k \in 1 .. Len(spheres) :
        C5_Between(spheres[k], Subtract(spheres[k].Center, shade.shadowOrig),
                   Multiply(Subtract(spheres[k].Center, shade.shadowOrig),
                            shade.lightDir))

C5_Unchanged ==
    /\ shade.diffuseAfter = shade.diffuseBefore
    /\ shade.specularAfter = shade.specularBefore

C5_Added ==
    /\ shade.diffuseAfter = shade.diffuseBefore
           + FMul(lights[shade.light].Intensity,
                  Max(0, Multiply(shade.lightDir, shade.n)))
    /\ shade.specularAfter = shade.specularBefore
           + SpecularTerm(lights[shade.light], shade.lightDir, shade.n, shade.dir,
                          shade.specularExponent)

\* C5: in every iteration of the loop over the lights, if the shadow ray
\* hit a surface nearer than the light the two intensities are unchanged,
\* otherwise the light's diffuse and specular terms were added; and the
\* intensities are unchanged whenever a sphere lies strictly between the
\* shadow ray's origin and the light.
C5_ShadowRule ==
    shade # NoShade
        => /\ IF /\ shade.shadowIntersect
                 /\ norm(Subtract(shade.shadowPoint, shade.shadowOrig))
                        < shade.lightDistance
              THEN C5_Unchanged
              ELSE C5_Added
           /\ C5_SomeSphereBetween => C5_Unchanged

\* a light that faces the surface is hidden by a sphere in between
C5_Witness ==
    /\ shade # NoShade
    /\ C5_SomeSphereBetween
    /\ Multiply(shade.lightDir, shade.n) > 0
    /\ C5_Unchanged

\* clamp(c, 0, 1) * 255 for the channel value last quantized
C6_Scaled ==
    255 * (IF quant.c < 0 THEN 0 ELSE IF quant.c > Scale THEN Scale ELSE quant.c)

\* C6 as stated: the 8-bit value is the integer nearest to
\* clamp(c, 0, 1) * 255.  The channel value 0.999 violates it: it is
\* quantized to 254, and 254.745 is nearer to 255.
C6_Rounded ==
    quant.called
        => /\ quant.q \in 0 .. 255
           /\ 2 * Abs(C6_Scaled - quant.q * Scale) <= Scale

\* C6: the 8-bit value is clamp(c, 0, 1) * 255 with its fraction
\* discarded: the largest integer of 0..255 that is not above it.
C6_Truncated ==
    quant.called
        => /\ quant.q \in 0 .. 255
           /\ quant.q * Scale <= C6_Scaled
           /\ C6_Scaled < (quant.q + 1) * Scale

\* a channel whose scaled value has a fraction above one half
C6_Witness ==
    /\ quant.called
    /\ quant.c \in 1 .. Scale - 1
    /\ 2 * (C6_Scaled - quant.q * Scale) > Scale

\* pixel (pi, pj) comes before main's position in the order of the loops
C7_Passed(pi, pj) == pj < j \/ (pj = j /\ pi < i)

\* C7: no pixel is written twice, the pixels written are those the loops
\* have passed, and when the loops have ended every pixel has been
\* written once.
C7_WriteOnce ==
    /\ \A px \in Pixels :
          img[px].writes = IF C7_Passed(px[1], px[2]) THEN 1 ELSE 0
    /\ pc = "done" => \A px \in Pixels : img[px].writes = 1

\* the image handed to mustWriteToDisk
C7_Witness == pc = "done" /\ \A px \in Pixels : img[px].writes = 1

\* C8: two castRay calls of depth 0 with the same origin and direction
\* return the same colour, whatever was cast between them.  Over
\* SunkScene a ray that hits the first red sphere returns another colour
\* after a ray that hit the floor in front of the sunk red sphere.
C8_SameRaySameColor ==
    \A a, b \in 1 .. Len(log) :
        (log[a].orig = log[b].orig /\ log[a].dir = log[b].dir)
            => log[a].color = log[b].color

\* the last two sceneIntersect calls both reported a hit of the checkerboard
C9_TwoPlaneHits ==
    /\ probe.called /\ probe.intersect /\ probe.plane
    /\ prev.called /\ prev.intersect /\ prev.plane

C9_Neighbours ==
    /\ C9_TwoPlaneHits
    /\ Abs(probe.hit.X - prev.hit.X) = Scale
    /\ probe.hit.Z = prev.hit.Z

\* C9: two checkerboard hits whose x differ by one and whose z are equal
\* get different colours, one (1, 1, 1) * 0.3, the other
\* (1, 0.7, 0.3) * 0.3.
C9_Alternates ==
    C9_Neighbours
        => { probe.material.DiffuseColor, prev.material.DiffuseColor }
              = { Vec(Milli(300), Milli(300), Milli(300)),
                  Vec(Milli(300), Milli(210), Milli(90)) }

\* two neighbours, the later one white
C9_Witness ==
    /\ C9_Neighbours
    /\ probe.material.DiffuseColor = Vec(Milli(300), Milli(300), Milli(300))

\* floor(0.5 + hitX + 1000) + floor(0.5 * hitZ)
C10_FloorSum(hit) ==
    ((Milli(500) + hit.X + 1000 * Scale) \div Scale) + (hit.Z \div (2 * Scale))

\* the same sum with both terms rounded toward zero
C10_TruncSum(hit) ==
    ((Milli(500) + hit.X + 1000 * Scale) \div Scale) - ((-hit.Z) \div (2 * Scale))

\* C10 as stated: two checkerboard hits get the same colour exactly when
\* the sums floor(0.5 + hitX + 1000) + floor(0.5 * hitZ) have the same
\* parity.  The hits (0, -4, -18) and (0, -4, -17) violate it: the floors
\* of -9 and -8.5 are both -9, and the colours differ.
C10_FloorParity ==
    C9_TwoPlaneHits
        => ((probe.material.DiffuseColor = prev.material.DiffuseColor)
              <=> (C10_FloorSum(probe.hit) % 2 = C10_FloorSum(prev.hit) % 2))

\* C10: two checkerboard hits get the same colour exactly when the sums
\* of 0.5 + hitX + 1000 and 0.5 * hitZ, each rounded toward zero, have
\* the same parity.
C10_TruncParity ==
    C9_TwoPlaneHits
        => ((probe.material.DiffuseColor = prev.material.DiffuseColor)
              <=> (C10_TruncSum(probe.hit) % 2 = C10_TruncSum(prev.hit) % 2))

\* two hits for which rounding toward zero and toward minus infinity
\* disagree
C10_Witness ==
    /\ C9_TwoPlaneHits
    /\ probe.hit.Z < 0
    /\ prev.hit.Z < 0
    /\ (C10_FloorSum(probe.hit) % 2 = C10_FloorSum(prev.hit) % 2)
          # (C10_TruncSum(probe.hit) % 2 = C10_TruncSum(prev.hit) % 2)

\* d = -(origin.y + 4) / dir.y for the ray of the last sceneIntersect call
C11_D == FDiv(-(probe.orig.Y + 4 * Scale), probe.dir.Y)

C11_PtX(d) == probe.orig.X + FMul(probe.dir.X, d)

C11_PtZ(d) == probe.orig.Z + FMul(probe.dir.Z, d)

\* the plane hit at the distance d is in front of the origin, its z is in
\* the open interval (-30, -10), and it is nearer than the nearest sphere
C11_InFrontInZ(d) ==
    /\ d > 0
    /\ C11_PtZ(d) > -30 * Scale
    /\ C11_PtZ(d) < -10 * Scale
    /\ d < probe.spheresDist

\* C11 as stated: the checkerboard takes the hit exactly when
\* |dir.y| > 1e-3, d > 0, x is in the closed interval [-10, 10], z is in
\* the open interval (-30, -10) and d is below the nearest sphere's
\* distance.  The ray straight down from (10, 0, -20) violates it: the
\* hit (10, -4, -20) is not taken.
C11_ClosedX ==
    probe.called
        => (probe.plane
              <=> /\ Abs(probe.dir.Y) > Milli(1)
                  /\ C11_InFrontInZ(C11_D)
                  /\ C11_PtX(C11_D) >= -10 * Scale
                  /\ C11_PtX(C11_D) <= 10 * Scale)

\* C11: the checkerboard takes the hit exactly when |dir.y| > 1e-3,
\* d > 0, x is in the open interval (-10, 10), z is in the open interval
\* (-30, -10) and d is below the nearest sphere's distance.
C11_OpenX ==
    probe.called
        => (probe.plane
              <=> /\ Abs(probe.dir.Y) > Milli(1)
                  /\ C11_InFrontInZ(C11_D)
                  /\ C11_PtX(C11_D) > -10 * Scale
                  /\ C11_PtX(C11_D) < 10 * Scale)

\* a hit with x at 10 or -10, in front, with z inside, before every
\* sphere, that the checkerboard did not take
C11_Witness ==
    /\ probe.called
    /\ Abs(probe.dir.Y) > Milli(1)
    /\ C11_InFrontInZ(C11_D)
    /\ Abs(C11_PtX(C11_D)) = 10 * Scale
    /\ ~probe.plane

\* the k-th sphere is met by the last ray at the distance dist
C12_MetAt(k, r, dist) == r.intersect /\ r.dist = dist

C12_Less(r, best) == IF r.intersect /\ r.dist < best THEN r.dist ELSE best

RECURSIVE C12_MinFrom(_, _)
\* the least of best and the distances at which the last ray meets the
\* spheres from the k-th on
C12_MinFrom(k, best) ==
    IF k > Len(spheres) THEN best
    ELSE C12_MinFrom(k + 1,
                     C12_Less(RayIntersect(spheres[k], probe.orig, probe.dir), best))

\* the first sphere in scene order met at the distance dist
C12_First(dist) ==
    CHOOSE k \in 1 .. Len(spheres) :
        /\ C12_MetAt(k, RayIntersect(spheres[k], probe.orig, probe.dir), dist)
        /\ \A l \in 1 .. k - 1 :
              ~C12_MetAt(l, RayIntersect(spheres[l], probe.orig, probe.dir), dist)

\* the returned normal and material are those of the k-th sphere
C12_OfSphere(k) ==
    /\ probe.mat = spheres[k].Material
    /\ probe.n = Normalize(Subtract(probe.hit, spheres[k].Center))

\* the returned normal and material are those of the checkerboard
C12_OfPlane ==
    /\ probe.n = Vec(0, Scale, 0)
    /\ probe.material.Albedo = Vec4(Scale, 0, 0, 0)
    /\ probe.material.SpecularExponent = 0
    /\ probe.material.RefractiveIndex = Scale
    /\ probe.material.DiffuseColor \in
          { Vec(Milli(300), Milli(300), Milli(300)),
            Vec(Milli(300), Milli(210), Milli(90)) }

\* sd the least sphere distance, pd the distance of the accepted plane hit
C12_Holds(sd, pd) ==
    /\ probe.intersect <=> Min(sd, pd) < 1000 * Scale
    /\ probe.intersect
          => /\ probe.hit = Add(probe.orig, MultiplyF(probe.dir, Min(sd, pd)))
             /\ IF pd < sd THEN C12_OfPlane ELSE C12_OfSphere(C12_First(sd))

\* C12: sceneIntersect reports a hit exactly when the least of the sphere
\* distances and the accepted plane distance is below 1000; the hit
\* point is origin + dir * that distance, and the normal and the material
\* are those of the surface at that distance, the first in scene order of
\* the spheres at equal distances.  The ray of SunkScene straight down
\* from (2.5, 0, -18) violates it: the plane is the nearest surface and
\* the material returned is that of the sphere behind it.
C12_NearestSurface ==
    probe.called
        => C12_Holds(C12_MinFrom(1, MaxFloat64),
                     IF probe.plane THEN C11_D ELSE MaxFloat64)

=============================================================================
